---- MODULE Spec2Model ----
(***************************************************************************)
(* Model of MenstrualCycleProcessor (src/ciclo_menstrual.py).              *)
(*                                                                         *)
(* Calendar dates are day numbers (integers); a timedelta is a number of   *)
(* days.  A DataFrame is modelled by its 'date' column, the only column    *)
(* the processor reads after parsing.  Calendar events keep the fields     *)
(* the processor computes (categories, dtstart, dtend); the random uid and *)
(* the fixed summary/description texts are left out.                       *)
(***************************************************************************)
EXTENDS Integers, Sequences, FiniteSets, TLC

VARIABLES
    periods,      \* self.periods: the list [] of __init__, or a DataFrame
    cycle_data,   \* self.cycle_data
    last_parse,   \* history: the dates of the records found by the latest
                  \* parse_health_data, in ascending order
    arg_periods,  \* the periods argument handed to calculate_cycle_phases
    arg_months_future,  \* the months_future argument of generate_ical_calendar
    loop_log,     \* history: locals of each pass of the forecast loop
    ret           \* outcome of the most recent call: the operation, the
                  \* exception raised, and the Periods, CyclePhases or events
                  \* returned (the list parse_health_data returns is not kept)

vars ==
    <<periods, cycle_data, last_parse, arg_periods, arg_months_future,
      loop_log, ret>>

----------------------------------------------------------------------------
(* Bounds *)

MaxDate == 5        \* observation dates are 0..MaxDate
MaxObs == 3         \* at most MaxObs <Record> elements in an export file
MaxPeriods == 3     \* at most MaxPeriods Periods handed to calculate_cycle_phases
MaxMonths == 2      \* months_future is 0..MaxMonths

----------------------------------------------------------------------------
(* Helpers *)

Range(s) == {s[i] : i \in 1..Len(s)}

SeqsUpTo(S, n) == UNION {[1..k -> S] : k \in 0..n}

RECURSIVE SumSeq(_)
SumSeq(s) == IF s = <<>> THEN 0 ELSE Head(s) + SumSeq(Tail(s))

MinOf(s) == CHOOSE x \in Range(s) : \A y \in Range(s) : x <= y
MaxOf(s) == CHOOSE x \in Range(s) : \A y \in Range(s) : x >= y

\* Insert x into the ascending sequence s, after any equal elements.
RECURSIVE InsertSorted(_, _)
InsertSorted(x, s) ==
    IF s = <<>> THEN <<x>>
    ELSE IF x < Head(s) THEN <<x>> \o s
    ELSE <<Head(s)>> \o InsertSorted(x, Tail(s))

\* Series.sort_values() / DataFrame.sort_values('date') on the date column.
RECURSIVE sort_values(_)
sort_values(s) ==
    IF s = <<>> THEN <<>>
    ELSE InsertSorted(s[Len(s)], sort_values(SubSeq(s, 1, Len(s) - 1)))

----------------------------------------------------------------------------
(* parse_health_data *)

MenstrualFlow == "HKCategoryTypeIdentifierMenstrualFlow"
OtherType == "HKQuantityTypeIdentifierStepCount"

\* The <Record> elements an export file may hold: flow records of any date
\* and a record of another type.
Records ==
    {[type |-> MenstrualFlow, date |-> d] : d \in 0..MaxDate}
        \cup {[type |-> OtherType, date |-> 0]}

Documents == SeqsUpTo(Records, MaxObs)

\* The loop over root.findall('.//Record'): dates of the flow records, in
\* document order.
RECURSIVE menstrual_flow_records(_)
menstrual_flow_records(doc) ==
    IF doc = <<>> THEN <<>>
    ELSE IF Head(doc).type = MenstrualFlow
         THEN <<Head(doc).date>> \o menstrual_flow_records(Tail(doc))
         ELSE menstrual_flow_records(Tail(doc))

EmptyList == [kind |-> "list", date |-> <<>>]
DataFrame(dates) == [kind |-> "DataFrame", date |-> dates]

\* self.periods after parse_health_data found the given records.
StoreParsed(old, found) ==
    IF found # <<>> THEN DataFrame(sort_values(found)) ELSE old

ParseHealthData(doc) ==
    LET found == menstrual_flow_records(doc) IN
    /\ periods' = StoreParsed(periods, found)
    /\ last_parse' = [called |-> TRUE, records |-> sort_values(found)]
    /\ ret' = [op |-> "parse_health_data", raised |-> "", value |-> <<>>]
    /\ UNCHANGED <<cycle_data, arg_periods, arg_months_future, loop_log>>

----------------------------------------------------------------------------
(* identify_periods *)

Period(current_period) ==
    [start |-> MinOf(current_period),
     end |-> MaxOf(current_period),
     duration |-> Len(current_period)]

IsNewPeriodAtTwo(date, prev_date) == date - prev_date >= 2
IsNewPeriod(date, prev_date) == date - prev_date > 2

Emit(acc, current_period) ==
    IF current_period # <<>> THEN Append(acc, Period(current_period)) ELSE acc

\* The for loop over enumerate(sorted_dates), from pass i (1-based) on,
\* followed by the closing of the last period.
RECURSIVE WalkDates(_, _, _, _)
WalkDates(sorted_dates, i, current_period, acc) ==
    IF i > Len(sorted_dates) THEN Emit(acc, current_period)
    ELSE LET date == sorted_dates[i] IN
         IF i = 1 THEN WalkDates(sorted_dates, 2, <<date>>, acc)
         ELSE IF IsNewPeriod(date, sorted_dates[i - 1])
              THEN WalkDates(sorted_dates, i + 1, <<date>>,
                             Emit(acc, current_period))
              ELSE WalkDates(sorted_dates, i + 1,
                             Append(current_period, date), acc)

\* Outcome of identify_periods on a given value of self.periods.  A list
\* has no attribute 'empty'.
identify_periods(p) ==
    IF p.kind = "list"
    THEN [op |-> "identify_periods", raised |-> "AttributeError",
          value |-> <<>>]
    ELSE IF p.date = <<>>
    THEN [op |-> "identify_periods", raised |-> "", value |-> <<>>]
    ELSE [op |-> "identify_periods", raised |-> "",
          value |-> WalkDates(sort_values(p.date), 1, <<>>, <<>>)]

IdentifyPeriods ==
    /\ ret' = identify_periods(periods)
    /\ UNCHANGED <<periods, cycle_data, last_parse, arg_periods,
                   arg_months_future, loop_log>>

----------------------------------------------------------------------------
(* The processor object under parse_health_data and identify_periods *)

DefaultMonthsFuture == 6

NoCall == [op |-> "__init__", raised |-> "", value |-> <<>>]

Init ==
    /\ periods = EmptyList
    /\ cycle_data = <<>>
    /\ last_parse = [called |-> FALSE, records |-> <<>>]
    /\ arg_periods = <<>>
    /\ arg_months_future = DefaultMonthsFuture
    /\ loop_log = <<>>
    /\ ret = NoCall

Next ==
    \/ \E doc \in Documents : ParseHealthData(doc)
    \/ IdentifyPeriods

Spec == Init /\ [][Next]_vars

----------------------------------------------------------------------------
(* calculate_cycle_phases *)

cycle_length_from_end(current_period, next_period) ==
    next_period.start - current_period.end
cycle_length(current_period, next_period) ==
    next_period.start - current_period.start

\* The dict appended in pass i (0-based) of the loop over range(len - 1).
CyclePhase(period_list, i) ==
    LET current_period == period_list[i + 1]
        next_period == period_list[i + 2]
        ovulation_date == next_period.start - 14
    IN  [cycle_number |-> i + 1,
         period_start |-> current_period.start,
         period_end |-> current_period.end,
         period_duration |-> current_period.duration,
         cycle_length |-> cycle_length(current_period, next_period),
         ovulation_date |-> ovulation_date,
         fertile_window_start |-> ovulation_date - 5,
         fertile_window_end |-> ovulation_date + 1,
         pms_alert_date |-> next_period.start - 7,
         next_period_date |-> next_period.start]

\* range(len(periods) - 1) is empty when len(periods) < 2.
calculate_cycle_phases(period_list) ==
    [i \in 1..(IF Len(period_list) >= 2 THEN Len(period_list) - 1 ELSE 0) |->
        CyclePhase(period_list, i - 1)]

CalculateCyclePhases ==
    LET cycle_phases == calculate_cycle_phases(arg_periods) IN
    /\ cycle_data' = cycle_phases
    /\ ret' = [op |-> "calculate_cycle_phases", raised |-> "",
               value |-> cycle_phases]
    /\ UNCHANGED <<periods, last_parse, arg_periods, arg_months_future,
                   loop_log>>

----------------------------------------------------------------------------
(* generate_ical_calendar *)

\* An event with DTSTART and DTEND, and one with DTSTART only.
Event(categories, dtstart, dtend) ==
    [categories |-> categories, dtstart |-> dtstart, dtend |-> <<dtend>>]
DayEvent(categories, dtstart) ==
    [categories |-> categories, dtstart |-> dtstart, dtend |-> <<>>]

\* The four events added for one historical cycle.
HistoricalEvents(cycle) ==
    << Event("MENSTRUATION", cycle.period_start, cycle.period_end + 1),
       DayEvent("OVULATION", cycle.ovulation_date),
       Event("FERTILITY", cycle.fertile_window_start,
             cycle.fertile_window_end + 1),
       DayEvent("PMS_ALERT", cycle.pms_alert_date) >>

RECURSIVE AllHistoricalEvents(_)
AllHistoricalEvents(cycle_phases) ==
    IF cycle_phases = <<>> THEN <<>>
    ELSE HistoricalEvents(Head(cycle_phases))
            \o AllHistoricalEvents(Tail(cycle_phases))

CycleLengths(cycle_phases) ==
    [i \in 1..Len(cycle_phases) |-> cycle_phases[i].cycle_length]

\* max(cycle_phases, key=period_start): the first phase no other exceeds.
LastPeriod(cycle_phases) ==
    LET best == CHOOSE i \in 1..Len(cycle_phases) :
                    /\ \A j \in 1..Len(cycle_phases) :
                          cycle_phases[j].period_start
                              <= cycle_phases[i].period_start
                    /\ \A j \in 1..(i - 1) :
                          cycle_phases[j].period_start
                              < cycle_phases[i].period_start
    IN  cycle_phases[best]

\* future_cycles < months_future * 30 / avg_cycle_length, where
\* avg_cycle_length is total / count and is not zero.
LoopContinuesInclusive(future_cycles, months_future, total, count) ==
    IF total > 0
    THEN future_cycles * total <= months_future * 30 * count
    ELSE future_cycles * total >= months_future * 30 * count
LoopContinues(future_cycles, months_future, total, count) ==
    IF total > 0
    THEN future_cycles * total < months_future * 30 * count
    ELSE future_cycles * total > months_future * 30 * count

\* int(avg_cycle_length): the mean total / count cut towards zero.
IntAvg(total, count) ==
    IF total >= 0 THEN total \div count ELSE -((-total) \div count)

\* datetime.now().date() at the k-th reading of the clock (k from 0) in a
\* call begun on day today; with rollover, midnight passes after the first
\* reading.
NowAt(today, rollover, k) ==
    IF rollover /\ k >= 1 THEN today + 1 ELSE today

IsFutureOrToday(marker_date, now) == marker_date >= now
IsFuture(marker_date, now) == marker_date > now

\* One pass of the while loop and all later ones.  c holds what the loop
\* does not change; out collects the events added and the locals of each
\* pass.
RECURSIVE ForecastLoop(_, _, _, _)
ForecastLoop(c, future_cycles, current_date, out) ==
    IF ~LoopContinues(future_cycles, c.months_future, c.total, c.count)
    THEN out
    ELSE
        LET period_start == current_date
            period_end == current_date + c.last_period.period_duration
            ovulation_future == period_start - 14
            pms_future == period_start - 7
            now_ovulation == NowAt(c.today, c.rollover, 2 * future_cycles)
            now_pms == NowAt(c.today, c.rollover, 2 * future_cycles + 1)
            added ==
                << Event("MENSTRUATION_PREDICTED", period_start,
                         period_end + 1) >>
                \o (IF IsFuture(ovulation_future, now_ovulation)
                    THEN << DayEvent("OVULATION_PREDICTED",
                                     ovulation_future) >>
                    ELSE <<>>)
                \o (IF IsFuture(pms_future, now_pms)
                    THEN << DayEvent("PMS_ALERT_PREDICTED", pms_future) >>
                    ELSE <<>>)
            pass == [period_start |-> period_start,
                     ovulation_future |-> ovulation_future,
                     now_ovulation |-> now_ovulation,
                     pms_future |-> pms_future,
                     now_pms |-> now_pms]
        IN  ForecastLoop(c, future_cycles + 1,
                         current_date + IntAvg(c.total, c.count),
                         [events |-> out.events \o added,
                          log |-> Append(out.log, pass)])

\* The outcome of generate_ical_calendar: the exception raised, the events
\* of the calendar returned, and the passes of the forecast loop.
generate_ical_calendar(cycle_phases, months_future, today, rollover) ==
    LET historical == [events |-> AllHistoricalEvents(cycle_phases),
                       log |-> <<>>]
        total == SumSeq(CycleLengths(cycle_phases))
    IN  IF cycle_phases = <<>>
        THEN [raised |-> "", out |-> historical]
        ELSE IF total = 0
        THEN [raised |-> "ZeroDivisionError",
              out |-> [events |-> <<>>, log |-> <<>>]]
        ELSE
            LET last_period == LastPeriod(cycle_phases)
                c == [months_future |-> months_future,
                      total |-> total,
                      count |-> Len(cycle_phases),
                      last_period |-> last_period,
                      today |-> today,
                      rollover |-> rollover]
            IN  [raised |-> "",
                 out |-> ForecastLoop(c, 0, last_period.next_period_date,
                                      historical)]

GenerateIcalCalendar(today, rollover) ==
    LET r == generate_ical_calendar(cycle_data, arg_months_future, today,
                                    rollover)
    IN  /\ ret' = [op |-> "generate_ical_calendar", raised |-> r.raised,
                   value |-> r.out.events]
        /\ loop_log' = r.out.log
        /\ UNCHANGED <<periods, cycle_data, last_parse, arg_periods,
                       arg_months_future>>

----------------------------------------------------------------------------
(* calculate_cycle_phases and generate_ical_calendar on given Periods *)

\* Start dates and shapes (end - start, duration) of the Periods handed in.
PeriodStarts == {0, 28, 55, 84}
PeriodShapes == {<<0, 1>>, <<4, 5>>}

Periods ==
    {[start |-> s, end |-> s + sh[1], duration |-> sh[2]] :
        s \in PeriodStarts, sh \in PeriodShapes}

\* The days on which generate_ical_calendar is called.
Todays == {41, 48}

InitForecast ==
    /\ periods = EmptyList
    /\ cycle_data = <<>>
    /\ last_parse = [called |-> FALSE, records |-> <<>>]
    /\ arg_periods \in SeqsUpTo(Periods, MaxPeriods)
    /\ arg_months_future \in 0..MaxMonths
    /\ loop_log = <<>>
    /\ ret = NoCall

NextForecast ==
    \/ CalculateCyclePhases
    \/ \E today \in Todays, rollover \in BOOLEAN :
          GenerateIcalCalendar(today, rollover)

SpecForecast == InitForecast /\ [][NextForecast]_vars

----------------------------------------------------------------------------
(* Properties of parse_health_data and identify_periods *)

Identified == ret.op = "identify_periods" /\ ret.raised = ""

Distinct(s) == \A i, j \in 1..Len(s) : i # j => s[i] # s[j]

\* First and last dates of the maximal runs of a set of dates in which
\* consecutive dates are at most 2 days apart.
RunStarts(D) == {d \in D : (d - 1) \notin D /\ (d - 2) \notin D}
RunEnds(D) == {d \in D : (d + 1) \notin D /\ (d + 2) \notin D}

DurationsOf(P) == [i \in 1..Len(P) |-> P[i].duration]

\* C1: on a non-empty observation set with pairwise distinct dates,
\* identify_periods returns one Period per maximal run of dates whose
\* consecutive gaps are at most 2 days (a gap of 2 joins, a gap of 3
\* splits), in ascending order of start, and the durations add up to the
\* number of observations.
C1_OnePeriodPerRun ==
    (Identified /\ periods.date # <<>> /\ Distinct(periods.date)) =>
        LET D == Range(periods.date)
            P == ret.value
        IN  /\ Len(P) = Cardinality(RunStarts(D))
            /\ {P[i].start : i \in 1..Len(P)} = RunStarts(D)
            /\ \A i \in 1..Len(P) :
                  /\ P[i].end \in RunEnds(D)
                  /\ P[i].start <= P[i].end
                  /\ \A e \in RunEnds(D) :
                        ~(P[i].start <= e /\ e < P[i].end)
            /\ \A i \in 1..(Len(P) - 1) : P[i].start < P[i + 1].start
            /\ SumSeq(DurationsOf(P)) = Len(periods.date)

\* C1 witness: distinct dates holding a gap of exactly 2 days inside one
\* period and a gap of exactly 3 days between two periods.
C1_Witness ==
    /\ Identified
    /\ Distinct(periods.date)
    /\ Len(ret.value) = 2
    /\ ret.value[1].end = ret.value[1].start + 2
    /\ ret.value[1].duration = 2
    /\ ret.value[2].start = ret.value[1].end + 3

\* C6: identify_periods on a processor that holds no observations (fresh,
\* or after parses that found no menstrual-flow record) returns an empty
\* sequence and raises nothing.
C6_EmptyYieldsEmpty ==
    (ret.op = "identify_periods" /\ periods.date = <<>>) =>
        (ret.raised = "" /\ ret.value = <<>>)

\* C7: every Period returned by identify_periods has start <= end and a
\* duration equal to the number of distinct observation dates folded into
\* it.
C7_DurationCountsDistinctDates ==
    Identified =>
        \A i \in 1..Len(ret.value) :
            LET p == ret.value[i] IN
            /\ p.start <= p.end
            /\ p.duration =
                 Cardinality({d \in Range(periods.date) :
                                 p.start <= d /\ d <= p.end})

\* C10: after any parse_health_data calls, identify_periods returns the
\* segmentation of the records found by the most recent call and nothing
\* from earlier calls (nothing at all when that call found none).
C10_SegmentsLatestParse ==
    (Identified /\ last_parse.called) =>
        ret.value = WalkDates(sort_values(last_parse.records), 1, <<>>, <<>>)

----------------------------------------------------------------------------
(* Properties of calculate_cycle_phases *)

\* C2: for N Periods calculate_cycle_phases returns N-1 records when
\* N >= 2 and none, without error, when N < 2; record i has cycle_length
\* equal to the days from the start of period i to the start of period
\* i+1, and next_period_date equal to the start of period i+1.
C2_OnePhasePerPair ==
    ret.op = "calculate_cycle_phases" =>
        /\ ret.raised = ""
        /\ Len(arg_periods) >= 2 => Len(ret.value) = Len(arg_periods) - 1
        /\ Len(arg_periods) < 2 => ret.value = <<>>
        /\ \A i \in 1..Len(ret.value) :
              /\ ret.value[i].cycle_length =
                    arg_periods[i + 1].start - arg_periods[i].start
              /\ ret.value[i].next_period_date = arg_periods[i + 1].start

\* C2 witness: three Periods in order of start, the first one longer than
\* a day, gave two records.
C2_Witness ==
    /\ ret.op = "calculate_cycle_phases"
    /\ Len(arg_periods) = 3
    /\ arg_periods[1].start < arg_periods[1].end
    /\ arg_periods[1].end < arg_periods[2].start
    /\ arg_periods[2].start < arg_periods[3].start
    /\ Len(ret.value) = 2

----------------------------------------------------------------------------
(* Properties of generate_ical_calendar *)

Generated == ret.op = "generate_ical_calendar"

TotalLength == SumSeq(CycleLengths(cycle_data))

\* The events of the calendar returned that carry the given category, in
\* the order they were added.
RECURSIVE OfCategory(_, _)
OfCategory(events, category) ==
    IF events = <<>> THEN <<>>
    ELSE IF Head(events).categories = category
         THEN <<Head(events)>> \o OfCategory(Tail(events), category)
         ELSE OfCategory(Tail(events), category)

Predicted == OfCategory(ret.value, "MENSTRUATION_PREDICTED")

\* The phases with the latest period_start.
LatestPhases ==
    {i \in 1..Len(cycle_data) :
        \A j \in 1..Len(cycle_data) :
            cycle_data[j].period_start <= cycle_data[i].period_start}

\* Least integer not below a / b, for a >= 0 and b > 0.
CeilDiv(a, b) == (a + b - 1) \div b

RoundAvg(total, count) ==
    LET q == total \div count
        r == total % count
    IN  IF 2 * r > count THEN q + 1
        ELSE IF 2 * r < count THEN q
        ELSE IF q % 2 = 0 THEN q ELSE q + 1

\* C4: consecutive predicted period starts are round(avg_cycle_length)
\* days apart, avg_cycle_length being the exact mean of the historical
\* cycle lengths (rounded to the nearest day, not cut); stated for the
\* histories whose cycle lengths are all positive.
C4_StepIsRoundedMean ==
    (/\ Generated /\ ret.raised = "" /\ cycle_data # <<>>
     /\ \A i \in 1..Len(cycle_data) : cycle_data[i].cycle_length > 0) =>
        \A k \in 1..(Len(Predicted) - 1) :
            Predicted[k + 1].dtstart - Predicted[k].dtstart
                = RoundAvg(TotalLength, Len(cycle_data))

\* C5: every predicted period event covers D days, its exclusive end less
\* its start, D being the period_duration of the phase with the latest
\* period_start.
C5_PredictedCoversDuration ==
    (Generated /\ ret.raised = "" /\ cycle_data # <<>>) =>
        \A k \in 1..Len(Predicted) :
            \E i \in LatestPhases :
                Predicted[k].dtend[1] - Predicted[k].dtstart
                    = cycle_data[i].period_duration

\* C8: on a non-empty history whose average cycle length is zero,
\* generate_ical_calendar adds no predicted event and ends without a
\* division error.
C8_ZeroAverageNoForecast ==
    (Generated /\ cycle_data # <<>> /\ TotalLength = 0) =>
        /\ ret.raised = ""
        /\ \A k \in 1..Len(ret.value) :
              ret.value[k].categories \notin
                  {"MENSTRUATION_PREDICTED", "OVULATION_PREDICTED",
                   "PMS_ALERT_PREDICTED"}

\* How many events of a category start on day d.
CountEvents(category, d) ==
    Cardinality({k \in 1..Len(ret.value) :
                    /\ ret.value[k].categories = category
                    /\ ret.value[k].dtstart = d})

MarkerDays ==
    UNION {{loop_log[i].period_start, loop_log[i].ovulation_future,
            loop_log[i].pms_future} : i \in 1..Len(loop_log)}
        \cup {ret.value[k].dtstart : k \in 1..Len(ret.value)}

\* C9: every pass of the forecast loop adds its MENSTRUATION_PREDICTED
\* event; it adds an OVULATION_PREDICTED event 14 days before the period
\* start, and a PMS_ALERT_PREDICTED event 7 days before it, exactly when
\* that day is later than the current date.
C9_MarkersOnlyInFuture ==
    (Generated /\ ret.raised = "") =>
        /\ \A i \in 1..Len(loop_log) :
              /\ loop_log[i].ovulation_future = loop_log[i].period_start - 14
              /\ loop_log[i].pms_future = loop_log[i].period_start - 7
        /\ \A d \in MarkerDays :
              /\ CountEvents("MENSTRUATION_PREDICTED", d) =
                    Cardinality({i \in 1..Len(loop_log) :
                                    loop_log[i].period_start = d})
              /\ CountEvents("OVULATION_PREDICTED", d) =
                    Cardinality({i \in 1..Len(loop_log) :
                                    /\ loop_log[i].ovulation_future = d
                                    /\ d > loop_log[i].now_ovulation})
              /\ CountEvents("PMS_ALERT_PREDICTED", d) =
                    Cardinality({i \in 1..Len(loop_log) :
                                    /\ loop_log[i].pms_future = d
                                    /\ d > loop_log[i].now_pms})

\* C9 witness: a pass whose ovulation day is the current date (no marker)
\* and whose PMS day is later (a marker), and a later pass with both
\* markers.
C9_Witness ==
    /\ Generated
    /\ Len(loop_log) >= 2
    /\ loop_log[1].ovulation_future = loop_log[1].now_ovulation
    /\ loop_log[1].pms_future > loop_log[1].now_pms
    /\ CountEvents("OVULATION_PREDICTED", loop_log[1].ovulation_future) = 0
    /\ CountEvents("PMS_ALERT_PREDICTED", loop_log[1].pms_future) = 1
    /\ CountEvents("OVULATION_PREDICTED", loop_log[2].ovulation_future) = 1
    /\ CountEvents("MENSTRUATION_PREDICTED", loop_log[1].period_start) = 1

====
